---- MODULE Spec2Model ----
(***************************************************************************)
(* Model of two modules of qiskit_ibm_runtime:                             *)
(*   fake_provider/backends/yorktown/fake_yorktown.py                      *)
(*       the class declarations FakeYorktownV2 and FakeYorktown            *)
(*   qiskit_runtime_service.py                                             *)
(*       the class QiskitRuntimeService and its constructor                *)
(* A path is a sequence of path components.  A keyword-argument list is a  *)
(* function from the supplied parameter names to the supplied values.      *)
(***************************************************************************)
EXTENDS Integers, Sequences, FiniteSets, TLC

VARIABLES file, modpc, classAttrs, global_service, frames, handles, returned

vars == <<file, modpc, classAttrs, global_service, frames, handles, returned>>

----------------------------------------------------------------------------
(* Bounds of the model.                                                    *)

\* constructor calls made by one process
MaxServices == 2
\* threads of the process that may be inside the constructor at once
MaxThreads == 2

Threads == 1 .. MaxThreads

\* installation directories of the package
Prefixes == {<< >>, <<"site-packages">>, <<"opt", "venv">>}

----------------------------------------------------------------------------
(* fake_yorktown.py                                                        *)

\* Python's None
None == "None"

\* the module's location inside the installation directory
RelModule ==
    <<"qiskit_ibm_runtime", "fake_provider", "backends", "yorktown", "fake_yorktown.py">>

ModuleFiles == {prefix \o RelModule : prefix \in Prefixes}

\* os.path.dirname: the path without its last component
Dirname(path) == IF Len(path) = 0 THEN << >> ELSE SubSeq(path, 1, Len(path) - 1)

\* the last component of a path
Basename(path) == IF Len(path) = 0 THEN "" ELSE path[Len(path)]

\* os.path.join(dirname, filename) for a filename of one component
PathJoin(dirname, filename) == Append(dirname, filename)

\* variant: dirname = __file__, the os.path.dirname call forgotten
FakeYorktownV2Attrs_moduleAsDir(f) ==
    [dirname |-> f,
     conf_filename |-> "conf_yorktown.json",
     props_filename |-> "props_yorktown.json",
     backend_name |-> "ibm_yorktown"]

\* variant: the V2 class names a configuration document of its own
FakeYorktownV2Attrs_ownConf(f) ==
    [dirname |-> Dirname(f),
     conf_filename |-> "conf_yorktown_v2.json",
     props_filename |-> "props_yorktown.json",
     backend_name |-> "ibm_yorktown"]

\* the class body of FakeYorktownV2, run in a module whose __file__ is f
FakeYorktownV2Attrs(f) ==
    [dirname |-> Dirname(f),
     conf_filename |-> "conf_yorktown.json",
     props_filename |-> "props_yorktown.json",
     backend_name |-> "ibm_yorktown"]

\* variant: the class is named after the fake provider, not the device
FakeYorktownAttrs_fakeName(f) ==
    [dirname |-> Dirname(f),
     conf_filename |-> "conf_yorktown.json",
     props_filename |-> "props_yorktown.json",
     backend_name |-> "fake_yorktown"]

\* the class body of FakeYorktown, run in a module whose __file__ is f
FakeYorktownAttrs(f) ==
    [dirname |-> Dirname(f),
     conf_filename |-> "conf_yorktown.json",
     props_filename |-> "props_yorktown.json",
     backend_name |-> "ibm_yorktown"]

\* binding a class name in the module namespace
Declare(attrs, cls, a) ==
    [c \in DOMAIN attrs \cup {cls} |-> IF c = cls THEN a ELSE attrs[c]]

\* class FakeYorktownV2(fake_backend.FakeBackendV2): ...
DeclareFakeYorktownV2 ==
    /\ modpc = 0
    /\ classAttrs' = Declare(classAttrs, "FakeYorktownV2", FakeYorktownV2Attrs(file))
    /\ modpc' = 1
    /\ UNCHANGED <<file, global_service, frames, handles, returned>>

\* class FakeYorktown(fake_qasm_backend.FakeQasmBackend): ...
DeclareFakeYorktown ==
    /\ modpc = 1
    /\ classAttrs' = Declare(classAttrs, "FakeYorktown", FakeYorktownAttrs(file))
    /\ modpc' = 2
    /\ UNCHANGED <<file, global_service, frames, handles, returned>>

\* the files the package ships beside a fake-backend module: the module, a
\* configuration document and a properties document named after the device
\* directory
RepoFiles(f) ==
    LET dir == Dirname(f)
        device == Basename(dir)
    IN  {f,
         PathJoin(dir, "conf_" \o device \o ".json"),
         PathJoin(dir, "props_" \o device \o ".json")}

\* what the base-class loader opens and reports for a declared class
ConfPath(c) == PathJoin(classAttrs[c].dirname, classAttrs[c].conf_filename)

PropsPath(c) == PathJoin(classAttrs[c].dirname, classAttrs[c].props_filename)

----------------------------------------------------------------------------
(* qiskit_runtime_service.py                                               *)

\* the parameters of QiskitRuntimeService.__init__ after self
Params ==
    {"channel", "token", "url", "filename", "name", "instance", "proxies", "verify",
     "channel_strategy"}

\* variant: channel declared without a default
RequiredParams_channel == {"channel"}

\* the parameters declared without a default value
RequiredParams == {}

\* variant: verify defaults to True
Default_verifyTrue(p) == IF p = "verify" THEN "True" ELSE None

\* the default value of a parameter
Default(p) == None

\* values a caller may pass: one an account manager accepts, one it rejects
ValueOf(p, variant) ==
    IF variant = "invalid"
    THEN CASE p = "channel" -> "bogus_channel"
           [] p = "instance" -> "no-slashes"
           [] p = "url" -> "not a url"
           [] p = "verify" -> "yes"
           [] OTHER -> p \o "-rejected"
    ELSE CASE p = "channel" -> "ibm_cloud"
           [] p = "instance" -> "hub/group/project"
           [] p = "verify" -> "True"
           [] p = "proxies" -> "proxy-dict"
           [] OTHER -> p \o "-value"

\* keyword arguments of a call: any subset of the parameters, or a call that
\* also passes a keyword the constructor does not declare
AllKwargs ==
    {[p \in given |-> ValueOf(p, variant)] :
        given \in SUBSET Params \cup {{"backend"}, {"backend", "channel"}},
        variant \in {"valid", "invalid"}}

\* the calls the threads of the concurrent specification make
ConcKwargs ==
    {[p \in given |-> ValueOf(p, variant)] :
        given \in {{}, {"channel", "token"}, {"backend"}}, variant \in {"valid", "invalid"}}

NoArgs == [p \in {} |-> None]

NoFrame == [pc |-> "idle", self |-> 0, kwargs |-> NoArgs, bound |-> NoArgs, baseArgs |-> NoArgs]

\* Python's argument binding: TypeError for an undeclared keyword or a
\* parameter without default that the call omits
BindFails(kwargs) ==
    \/ DOMAIN kwargs \ Params # {}
    \/ RequiredParams \ DOMAIN kwargs # {}

\* the locals of __init__ once the call is bound
Bind(kwargs) == [p \in Params |-> IF p \in DOMAIN kwargs THEN kwargs[p] ELSE Default(p)]

\* QiskitRuntimeService(**kwargs) on thread t: a new object, then the binding
\* of __init__'s parameters
Call(t, kwargs) ==
    /\ frames[t].pc = "idle"
    /\ Len(handles) < MaxServices
    /\ handles' = Append(handles, [account |-> None, baseArgs |-> NoArgs])
    /\ frames' = [frames EXCEPT ![t] =
            IF BindFails(kwargs)
            THEN [NoFrame EXCEPT !.pc = "bind_error", !.self = Len(handles) + 1,
                                 !.kwargs = kwargs]
            ELSE [NoFrame EXCEPT !.pc = "body", !.self = Len(handles) + 1,
                                 !.kwargs = kwargs, !.bound = Bind(kwargs)]]
    /\ UNCHANGED <<file, modpc, classAttrs, global_service, returned>>

\* the arguments of the call super().__init__()
SuperInitArgs(bound) == NoArgs

\* variant: the body rejects an unknown channel before delegating
InitBody_validating(f) ==
    IF f.bound["channel"] \notin {None, "ibm_cloud", "ibm_quantum"}
    THEN [f EXCEPT !.pc = "facade_error"]
    ELSE [f EXCEPT !.pc = "in_base", !.baseArgs = SuperInitArgs(f.bound)]

\* the body of __init__: the docstring, then super().__init__()
InitBody(f) == [f EXCEPT !.pc = "in_base", !.baseArgs = SuperInitArgs(f.bound)]

\* variant: the constructor writes its name argument into the declared classes
SuperInit_renamesBackend(t) ==
    /\ frames[t].pc = "body"
    /\ frames' = [frames EXCEPT ![t] = InitBody(frames[t])]
    /\ classAttrs' = [c \in DOMAIN classAttrs |->
            IF frames[t].bound["name"] = None
            THEN classAttrs[c]
            ELSE [classAttrs[c] EXCEPT !.backend_name = frames[t].bound["name"]]]
    /\ UNCHANGED <<file, modpc, global_service, handles, returned>>

\* line 135 on thread t
SuperInit(t) ==
    /\ frames[t].pc = "body"
    /\ frames' = [frames EXCEPT ![t] = InitBody(frames[t])]
    /\ UNCHANGED <<file, modpc, classAttrs, global_service, handles, returned>>

\* the connection parameters that select an account
AccountParams == {"channel", "token", "url", "filename", "name", "instance"}

\* the base-class constructor's choice of account
AccountSource(args) ==
    IF \A p \in AccountParams : p \notin DOMAIN args \/ args[p] = None
    THEN "saved"
    ELSE "explicit"

\* the base-class constructor runs on the new object and returns
BaseInitOk(t) ==
    /\ frames[t].pc = "in_base"
    /\ handles' = [handles EXCEPT ![frames[t].self] =
            [account |-> AccountSource(frames[t].baseArgs), baseArgs |-> frames[t].baseArgs]]
    /\ frames' = [frames EXCEPT ![t].pc = "return"]
    /\ UNCHANGED <<file, modpc, classAttrs, global_service, returned>>

\* the base-class constructor raises
BaseInitRaises(t) ==
    /\ frames[t].pc = "in_base"
    /\ frames' = [frames EXCEPT ![t].pc = "base_error"]
    /\ UNCHANGED <<file, modpc, classAttrs, global_service, handles, returned>>

\* variant: the constructor records the new object in global_service
Return_caching(t) ==
    /\ frames[t].pc = "return"
    /\ returned' = Append(returned, frames[t].self)
    /\ global_service' = ToString(frames[t].self)
    /\ frames' = [frames EXCEPT ![t] = NoFrame]
    /\ UNCHANGED <<file, modpc, classAttrs, handles>>

\* variant: a later construction yields the first object again
Return_singleton(t) ==
    /\ frames[t].pc = "return"
    /\ returned' = Append(returned, IF returned = << >> THEN frames[t].self ELSE returned[1])
    /\ frames' = [frames EXCEPT ![t] = NoFrame]
    /\ UNCHANGED <<file, modpc, classAttrs, global_service, handles>>

\* __init__ returns None and the call evaluates to the new object
Return(t) ==
    /\ frames[t].pc = "return"
    /\ returned' = Append(returned, frames[t].self)
    /\ frames' = [frames EXCEPT ![t] = NoFrame]
    /\ UNCHANGED <<file, modpc, classAttrs, global_service, handles>>

\* an exception leaves the constructor call
Raise(t) ==
    /\ frames[t].pc \in {"bind_error", "facade_error", "base_error"}
    /\ frames' = [frames EXCEPT ![t] = NoFrame]
    /\ UNCHANGED <<file, modpc, classAttrs, global_service, handles, returned>>

----------------------------------------------------------------------------
(* Specifications                                                          *)

Init ==
    /\ file \in ModuleFiles
    /\ modpc = 0
    /\ classAttrs = [c \in {} |-> NoArgs]
    /\ global_service = None
    /\ frames = [t \in Threads |-> NoFrame]
    /\ handles = << >>
    /\ returned = << >>

\* one thread, every keyword-argument list
Next ==
    \/ DeclareFakeYorktownV2
    \/ DeclareFakeYorktown
    \/ \E kwargs \in AllKwargs : Call(1, kwargs)
    \/ SuperInit(1)
    \/ BaseInitOk(1)
    \/ BaseInitRaises(1)
    \/ Return(1)
    \/ Raise(1)

Spec == Init /\ [][Next]_vars

\* every thread, a few keyword-argument lists
NextConc ==
    \/ DeclareFakeYorktownV2
    \/ DeclareFakeYorktown
    \/ \E t \in Threads, kwargs \in ConcKwargs : Call(t, kwargs)
    \/ \E t \in Threads : SuperInit(t)
    \/ \E t \in Threads : BaseInitOk(t)
    \/ \E t \in Threads : BaseInitRaises(t)
    \/ \E t \in Threads : Return(t)
    \/ \E t \in Threads : Raise(t)

SpecConc == Init /\ [][NextConc]_vars

----------------------------------------------------------------------------
(* Properties                                                              *)

\* a frame of __init__ whose parameters are bound
Bound(t) == frames[t].pc \in {"body", "in_base", "return", "base_error", "facade_error"}

\* a frame whose call has reached the base-class constructor
Delegated(t) == frames[t].pc \in {"in_base", "return", "base_error"}

\* C1: the base-class constructor receives every argument the caller
\* supplied, with the value the caller supplied.
C1_ForwardsUnchanged ==
    \A t \in Threads :
        Delegated(t) =>
            \A p \in DOMAIN frames[t].kwargs :
                /\ p \in DOMAIN frames[t].baseArgs
                /\ frames[t].baseArgs[p] = frames[t].kwargs[p]

\* C2: a construction with no arguments raises nothing before the
\* base-class constructor is invoked, and its next step from the body is
\* that invocation.
C2_NoArgsReachesBase ==
    /\ [](\A t \in Threads :
            (frames[t].pc # "idle" /\ frames[t].kwargs = NoArgs) => Bound(t) /\ frames[t].pc # "facade_error")
    /\ [][\A t \in Threads :
            (frames[t].pc = "body" /\ frames[t].kwargs = NoArgs /\ frames'[t] # frames[t])
                => frames'[t].pc = "in_base"]_vars

C2_Witness ==
    \E t \in Threads : frames[t].kwargs = NoArgs /\ frames[t].pc = "in_base"

\* C3: any subset of the nine parameters may be omitted; the call binds,
\* each omitted parameter is None, and a construction given nothing ends
\* with the locally stored account.
C3_AllOptional ==
    \A t \in Threads :
        (frames[t].pc # "idle" /\ DOMAIN frames[t].kwargs \subseteq Params) =>
            /\ Bound(t)
            /\ \A p \in Params \ DOMAIN frames[t].kwargs : frames[t].bound[p] = None
            /\ \A p \in DOMAIN frames[t].kwargs : frames[t].bound[p] = frames[t].kwargs[p]
            /\ (frames[t].kwargs = NoArgs /\ frames[t].pc = "return")
                    => handles[frames[t].self].account = "saved"

C3_Witness ==
    /\ \E t \in Threads :
        /\ frames[t].kwargs = NoArgs
        /\ frames[t].pc = "return"
        /\ handles[frames[t].self].account = "saved"
    /\ \E i \in 1 .. Len(returned) : handles[returned[i]].account = "saved"

C5_BackendNameStable ==
    \A c \in DOMAIN classAttrs :
        /\ classAttrs[c].backend_name # ""
        /\ classAttrs[c].backend_name = "ibm_yorktown"

C5_Witness ==
    /\ modpc = 2
    /\ Len(returned) = MaxServices
    /\ classAttrs["FakeYorktown"].backend_name = "ibm_yorktown"

\* C6: the constructor's own code raises nothing, whatever the values,
\* leaves its arguments as the caller passed them, and its step writes
\* nothing but the frame.
C6_NoValidationNoEffect ==
    /\ [](\A t \in Threads :
            /\ frames[t].pc # "facade_error"
            /\ Bound(t) => \A p \in DOMAIN frames[t].kwargs :
                                frames[t].bound[p] = frames[t].kwargs[p])
    /\ [][\A t \in Threads :
            (frames[t].pc = "body" /\ frames'[t] # frames[t]) =>
                /\ frames'[t].pc = "in_base"
                /\ frames'[t].bound = frames[t].bound
                /\ frames'[t].kwargs = frames[t].kwargs
                /\ UNCHANGED <<file, modpc, classAttrs, global_service, handles, returned>>]_vars

C6_Witness ==
    \E t \in Threads :
        /\ frames[t].pc = "in_base"
        /\ "channel" \in DOMAIN frames[t].kwargs
        /\ frames[t].bound["channel"] = "bogus_channel"
        /\ frames[t].bound["instance"] = "no-slashes"

\* C7: once a descriptor class is declared, no step changes any of its four
\* attributes.
C7_DescriptorsImmutable ==
    [][\A c \in DOMAIN classAttrs :
            /\ c \in DOMAIN classAttrs'
            /\ classAttrs'[c] = classAttrs[c]]_vars

C7_Witness ==
    /\ DOMAIN classAttrs = {"FakeYorktownV2", "FakeYorktown"}
    /\ \E i \in 1 .. Len(returned) : handles[returned[i]].account # None
    /\ \E t \in Threads : frames[t].pc = "in_base" /\ frames[t].bound["name"] # None

\* C8: under any interleaving of constructions, global_service stays None,
\* and a step of a constructor writes neither the class attributes nor a
\* handle other than the one under construction.
C8_NoSharedWrites ==
    /\ [](global_service = None)
    /\ [][\A t \in Threads :
            frames'[t] # frames[t] =>
                /\ global_service' = global_service
                /\ classAttrs' = classAttrs
                /\ \A i \in 1 .. Len(handles) :
                        handles'[i] # handles[i] => i = frames[t].self]_vars

C8_Witness ==
    /\ \E t, u \in Threads :
        /\ t # u
        /\ frames[t].pc = "return"
        /\ frames[u].pc = "in_base"
    /\ global_service = None

\* C9 as stated: at most one handle is ever returned to the process.
C9_AtMostOneHandle == Len(returned) <= 1

\* C9 as amended: every completed construction returns a new handle,
\* distinct from every handle returned before, and none is cached in
\* global_service.
C9_EveryConstructionNewHandle ==
    /\ \A i, j \in 1 .. Len(returned) : i # j => returned[i] # returned[j]
    /\ \A i \in 1 .. Len(returned) : returned[i] \in 1 .. Len(handles)
    /\ global_service = None

C9_Witness == Len(returned) >= 2 /\ returned[1] # returned[2]

\* C10: once both descriptor classes are declared they carry equal
\* attributes, so their configuration and properties paths coincide.
C10_SameDevice ==
    modpc = 2 =>
        /\ classAttrs["FakeYorktownV2"] = classAttrs["FakeYorktown"]
        /\ ConfPath("FakeYorktownV2") = ConfPath("FakeYorktown")
        /\ PropsPath("FakeYorktownV2") = PropsPath("FakeYorktown")

C10_Witness ==
    /\ modpc = 2
    /\ ConfPath("FakeYorktownV2") = ConfPath("FakeYorktown")
    /\ classAttrs["FakeYorktownV2"].backend_name = classAttrs["FakeYorktown"].backend_name

====
